---- MODULE Spec2Model ----
(***************************************************************************)
(* State-machine model of src/gameObjects/menus/ActionsMenu.ts (abstract   *)
(* base menu) together with its concrete subclass WeaponSelectorMenu.      *)
(*                                                                         *)
(* One menu instance is modelled.  Indices are 0-based as in the source;   *)
(* TLA+ sequences are 1-based, so list[i] of the source is list[i + 1].    *)
(***************************************************************************)
EXTENDS Integers, Sequences, FiniteSets

\* ------------------------------------------------------------------------
\* Bounds of the model
\* ------------------------------------------------------------------------

\* Number of buttons createPermanentButtons() puts in the permanent container
\* (WeaponSelectorMenu builds one; the base class is abstract over it).
MaxPermanent == 2

\* Largest weapon inventory of a unit standing on a context tile.
MaxWeapons == 2

\* show() calls without a hide() between them (each adds keyboard listeners).
MaxListeners == 2

\* Deferred timers of enableMapEvents() that may be pending at once.
MaxTimers == 2

\* Size of the tilemap of the layer, in tiles.
MapWidth == 16

MapHeight == 8

VARIABLES
    permanentButtons,        \* this.permanentButtons.list
    permanentButtonsVisible, \* this.permanentButtons.visible
    layerVisible,            \* this.layer.visible
    layerTiles,              \* tiles put on this.layer, by <<column, row>>
    tile,                    \* this.tile
    additionalButtons,       \* this.additionalButtons
    leakedButtons,           \* context buttons alive but no longer referenced
    allCurrentButtons,       \* this.allCurrentButtons
    buttonsCount,            \* this.buttonsCount
    cursorIndex,             \* this.cursorIndex
    highlighted,             \* buttons whose ActionButton is highlighted
    onPointerOver,           \* <<button, index>>: installed hover handlers
    keyListeners,            \* listeners registered per key on input.keyboard
    pendingTimers,           \* setTimeout callbacks not fired yet
    mapEventsEnabled,        \* the host map handles input (last bus event)
    emitted,                 \* scene.events emissions of the last operation
    pointerupLog,            \* buttons that got 'pointerup' in the last operation
    menuCoord,               \* {x, y} of the last show(): top-left tile of the panel
    showOptions,             \* the options argument of the last show()
    lastOp                   \* the last operation performed

vars == <<permanentButtons, permanentButtonsVisible, layerVisible, layerTiles,
          tile, additionalButtons, leakedButtons, allCurrentButtons,
          buttonsCount, cursorIndex, highlighted, onPointerOver, keyListeners,
          pendingTimers, mapEventsEnabled, emitted, pointerupLog, menuCoord,
          showOptions, lastOp>>

\* ------------------------------------------------------------------------
\* Data
\* ------------------------------------------------------------------------

\* WeaponSelectorMenu.linesTiles: the tile codes of the three panel rows.
linesTiles ==
    [top    |-> <<2674, 2675, 2675, 2675, 2675, 2675, 2675, 2676>>,
     middle |-> <<2704, 2705, 2705, 2705, 2705, 2705, 2705, 2706>>,
     bottom |-> <<2734, 2735, 2735, 2735, 2735, 2735, 2735, 2736>>]

\* A layer without tiles.
EmptyLayer == [p \in {} |-> 0]

\* this.tile before any show() was given one.
NoTile == [defined |-> FALSE, weapons |-> 0]

\* The context tiles a caller may pass: a unit with n weapons stands on each.
Tiles == {[defined |-> TRUE, weapons |-> n] : n \in 0..MaxWeapons}

\* The second argument of show(): absent, or carrying a tile.
NoOptions == [present |-> FALSE, tile |-> NoTile]

ShowOptions == {NoOptions} \cup {[present |-> TRUE, tile |-> t] : t \in Tiles}

\* The reference tiles show() is called with: the four corners of the map.
RefTiles == {[x |-> c, y |-> r] : c \in {0, MapWidth - 1}, r \in {0, MapHeight - 1}}

\* this.additionalButtons before the first show().
NoContainer == [defined |-> FALSE, list |-> << >>, destroyed |-> FALSE]

\* The elements of a sequence.
Range(s) == {s[i] : i \in DOMAIN s}

\* createCancelButton(): the button of the permanent container.
createCancelButton(i) == <<"cancel", i>>

\* createWeaponButton(): the button of the index-th weapon.
createWeaponButton(index) == <<"weapon", index>>

\* createPermanentButtons(): the permanent container's list.
createPermanentButtons(count) == [i \in 1..count |-> createCancelButton(i)]

\* createAdditionalButtons(): a new container; one weapon button per weapon
\* of the unit on this.tile when this.tile is set, no button otherwise.
createAdditionalButtons(t) ==
    [defined   |-> TRUE,
     list      |-> IF t.defined
                   THEN [i \in 1..t.weapons |-> createWeaponButton(i - 1)]
                   ELSE << >>,
     destroyed |-> FALSE]

\* ------------------------------------------------------------------------
\* Panel geometry and painting
\* ------------------------------------------------------------------------

Max(a, b) == IF a > b THEN a ELSE b

\* getPanelWidth(): the longest of the three tile rows.
getPanelWidth ==
    Max(Len(linesTiles.top), Max(Len(linesTiles.middle), Len(linesTiles.bottom)))

\* getMenuCoord(cursor): top-left tile of the panel.  count is the value of
\* this.buttonsCount at the time of the call.
getMenuCoord(cursor, count) ==
    LET panelWidth  == getPanelWidth
        panelHeight == count + 2
        x0 == cursor.x + 1
        y0 == cursor.y + 1
    IN  [x |-> IF (x0 + panelWidth) > MapWidth THEN x0 - (panelWidth + 1) ELSE x0,
         y |-> IF (y0 + panelHeight) > MapHeight THEN y0 - panelHeight ELSE y0]

\* createTopLine / createMiddleLine / createBottomLine: putTileAt(value,
\* x + index, y) for every column of the row; a later put replaces the tile.
\* The layer records the coordinates as requested, inside the map or not.
putLine(layer, columns, x, y) ==
    LET cells == {<<x + i - 1, y>> : i \in 1..Len(columns)}
    IN  [p \in (DOMAIN layer) \cup cells |->
            IF p \in cells THEN columns[p[1] - x + 1] ELSE layer[p]]

\* The loop of createContainer: middle lines at rows y + index + 1.
RECURSIVE createMiddleLines(_, _, _, _)
createMiddleLines(layer, x, y, itemsCount) ==
    IF itemsCount = 0 THEN layer
    ELSE putLine(createMiddleLines(layer, x, y, itemsCount - 1),
                 linesTiles.middle, x, y + (itemsCount - 1) + 1)

\* The row createContainer paints the bottom line at: bottomY starts at
\* y + max(0, itemsCount - 2) and is incremented once per middle line.
bottomRow(y, itemsCount) == y + Max(0, itemsCount - 2) + itemsCount

\* createContainer({coord: {x, y}, itemsCount}).
createContainer(layer, x, y, itemsCount) ==
    putLine(createMiddleLines(putLine(layer, linesTiles.top, x, y),
                              x, y, itemsCount),
            linesTiles.bottom, x, bottomRow(y, itemsCount))

\* ------------------------------------------------------------------------
\* Cursor
\* ------------------------------------------------------------------------

\* cursorIndexChanged(newIndex) on a cursor state [cursorIndex, highlighted,
\* thrown].  Reading a button outside the list gives undefined, and getData
\* of undefined throws: what was assigned before the throw stays assigned.
cursorIndexChanged(c, newIndex) ==
    IF c.cursorIndex = newIndex THEN c
    ELSE IF c.cursorIndex + 1 \notin DOMAIN allCurrentButtons
         THEN [c EXCEPT !.thrown = TRUE]
         ELSE LET unlit == c.highlighted \ {allCurrentButtons[c.cursorIndex + 1]}
              IN  IF newIndex + 1 \notin DOMAIN allCurrentButtons
                  THEN [cursorIndex |-> newIndex, highlighted |-> unlit,
                        thrown |-> TRUE]
                  ELSE [cursorIndex |-> newIndex,
                        highlighted |-> unlit \cup {allCurrentButtons[newIndex + 1]},
                        thrown |-> FALSE]

\* keydownDOWN() without the wrap-around to the first button.
keydownDOWNNoWrap(index, count) == index + 1

\* keydownDOWN(): the index the cursor is moved to.
keydownDOWN(index, count) == (index + 1) % count

\* keydownUP() wrapping to the first button instead of the last.
keydownUPToFirst(index, count) == IF index - 1 < 0 THEN 0 ELSE index - 1

\* keydownUP(): the index the cursor is moved to.
keydownUP(index, count) == IF index - 1 < 0 THEN count - 1 ELSE index - 1

\* One key press: the emitter calls the handler once per registered
\* listener, and an exception thrown by one ends the emission.
RECURSIVE pressDOWN(_, _)
pressDOWN(c, listeners) ==
    IF listeners = 0 THEN c
    ELSE LET d == pressDOWN(c, listeners - 1)
         IN  IF d.thrown THEN d
             ELSE cursorIndexChanged(d, keydownDOWN(d.cursorIndex, buttonsCount))

RECURSIVE pressUP(_, _)
pressUP(c, listeners) ==
    IF listeners = 0 THEN c
    ELSE LET d == pressUP(c, listeners - 1)
         IN  IF d.thrown THEN d
             ELSE cursorIndexChanged(d, keydownUP(d.cursorIndex, buttonsCount))

\* The cursor state of the menu before a handler runs.
cursorState ==
    [cursorIndex |-> cursorIndex, highlighted |-> highlighted, thrown |-> FALSE]

\* ------------------------------------------------------------------------
\* Construction
\* ------------------------------------------------------------------------

\* The constructor: the permanent buttons are created once, the layer and
\* the permanent container are hidden; the fields keep their initialisers.
\* The host map handles input while no menu is open.
Init ==
    /\ \E count \in 1..MaxPermanent :
           permanentButtons = createPermanentButtons(count)
    /\ permanentButtonsVisible = FALSE
    /\ layerVisible = FALSE
    /\ layerTiles = EmptyLayer
    /\ tile = NoTile
    /\ additionalButtons = NoContainer
    /\ leakedButtons = FALSE
    /\ allCurrentButtons = << >>
    /\ buttonsCount = 0
    /\ cursorIndex = 0
    /\ highlighted = {}
    /\ onPointerOver = {}
    /\ keyListeners = 0
    /\ pendingTimers = 0
    /\ mapEventsEnabled = TRUE
    /\ emitted = << >>
    /\ pointerupLog = << >>
    /\ menuCoord = [x |-> 0, y |-> 0]
    /\ showOptions = NoOptions
    /\ lastOp = "new"

\* isVisible().
isVisible == layerVisible

\* ------------------------------------------------------------------------
\* show
\* ------------------------------------------------------------------------

\* Lines 95-104 of show(): containerButtons.concat(containerAddButtons)
\* returns a new array that the statement drops, so the navigable list is
\* the permanent container's list.
showButtonList(containerButtons, containerAddButtons) == containerButtons

\* addOverEventButtons(): every button of the navigable list gets a hover
\* handler that moves the cursor to the button's index.
addOverEventButtons(buttons) == {<<buttons[i], i - 1>> : i \in DOMAIN buttons}

\* highlightFirstButton().
highlightFirstButton(buttons, lit) == lit \cup {buttons[1]}

\* disableMapEvents(): the event put on the scene's bus.
disableMapEvents == [name |-> <<"unsubscribeMapEvents">>, payload |-> NoTile]

\* show(cursor, options).
Show(cursor, options) ==
    /\ keyListeners < MaxListeners
    /\ LET newTile == IF options.present THEN options.tile ELSE tile
           coord   == getMenuCoord(cursor, buttonsCount)
           created == createAdditionalButtons(newTile)
           buttons == showButtonList(permanentButtons, created.list)
       IN  /\ tile' = newTile
           /\ showOptions' = options
           /\ menuCoord' = coord
           /\ layerVisible' = TRUE
           /\ additionalButtons' = created
           /\ leakedButtons' = (leakedButtons
                                 \/ (/\ additionalButtons.defined
                                     /\ ~ additionalButtons.destroyed
                                     /\ additionalButtons.list # << >>))
           /\ allCurrentButtons' = buttons
           /\ buttonsCount' = Len(buttons)
           /\ emitted' = <<disableMapEvents>>
           /\ mapEventsEnabled' = FALSE
           /\ layerTiles' = createContainer(layerTiles, coord.x, coord.y, Len(buttons))
           /\ permanentButtonsVisible' = TRUE
           /\ onPointerOver' = {h \in onPointerOver : h[1] \notin Range(buttons)}
                                  \cup addOverEventButtons(buttons)
           /\ highlighted' = highlightFirstButton(buttons, highlighted)
           /\ keyListeners' = keyListeners + 1
    /\ pointerupLog' = << >>
    /\ lastOp' = "show"
    /\ UNCHANGED <<permanentButtons, cursorIndex, pendingTimers>>

\* ------------------------------------------------------------------------
\* hide
\* ------------------------------------------------------------------------

\* destroyAdditionalButtons(): destroys the children of the container
\* this.additionalButtons refers to, if any.
destroyAdditionalButtons(container) ==
    IF ~ container.defined THEN container
    ELSE [container EXCEPT !.destroyed = TRUE]

\* disableEvents() removing one registration per key only.
disableEventsOnce(listeners) == Max(0, listeners - 1)

\* disableEvents(): off(event, fn, context) removes every registration of
\* the handler for the key, however often enableEvents() registered it.
disableEvents(listeners) == 0

\* enableMapEvents() that schedules nothing.
enableMapEventsNoTimer(timers) == timers

\* enableMapEvents(): one more deferred callback is scheduled.
enableMapEvents(timers) == timers + 1

\* reinitializeProperties() that remembers the last selected entry.
reinitializePropertiesKeepCursor ==
    [buttonsCount |-> 0, allCurrentButtons |-> << >>, cursorIndex |-> cursorIndex]

\* reinitializeProperties().
reinitializeProperties ==
    [buttonsCount |-> 0, allCurrentButtons |-> << >>, cursorIndex |-> 0]

\* The body of hide(), shared by every caller of hide(); lit is the set of
\* highlighted buttons when hide() is entered.
hide(lit) ==
    /\ layerVisible' = FALSE
    /\ permanentButtonsVisible' = FALSE
    /\ layerTiles' = EmptyLayer
    /\ additionalButtons' = destroyAdditionalButtons(additionalButtons)
    /\ keyListeners' = disableEvents(keyListeners)
    /\ highlighted' = lit \ Range(allCurrentButtons)
    /\ onPointerOver' = {h \in onPointerOver : h[1] \notin Range(allCurrentButtons)}
    /\ pendingTimers' = enableMapEvents(pendingTimers)
    /\ buttonsCount' = reinitializeProperties.buttonsCount
    /\ allCurrentButtons' = reinitializeProperties.allCurrentButtons
    /\ cursorIndex' = reinitializeProperties.cursorIndex

\* hide() called by the host.
Hide ==
    /\ pendingTimers < MaxTimers
    /\ hide(highlighted)
    /\ emitted' = << >>
    /\ pointerupLog' = << >>
    /\ lastOp' = "hide"
    /\ UNCHANGED <<permanentButtons, tile, leakedButtons, mapEventsEnabled,
                   menuCoord, showOptions>>

\* The callback of enableMapEvents()'s setTimeout fires.
TimerFire ==
    /\ pendingTimers > 0
    /\ pendingTimers' = pendingTimers - 1
    /\ emitted' = <<[name |-> <<"subscribeMapEvents">>, payload |-> NoTile]>>
    /\ mapEventsEnabled' = TRUE
    /\ pointerupLog' = << >>
    /\ lastOp' = "timer"
    /\ UNCHANGED <<permanentButtons, permanentButtonsVisible, layerVisible,
                   layerTiles, tile, additionalButtons, leakedButtons,
                   allCurrentButtons, buttonsCount, cursorIndex, highlighted,
                   onPointerOver, keyListeners, menuCoord, showOptions>>

\* ------------------------------------------------------------------------
\* Keyboard and pointer
\* ------------------------------------------------------------------------

\* A DOWN key press while listeners are registered.
KeydownDOWN ==
    /\ keyListeners > 0
    /\ LET c == pressDOWN(cursorState, keyListeners)
       IN  /\ cursorIndex' = c.cursorIndex
           /\ highlighted' = c.highlighted
    /\ emitted' = << >>
    /\ pointerupLog' = << >>
    /\ lastOp' = "DOWN"
    /\ UNCHANGED <<permanentButtons, permanentButtonsVisible, layerVisible,
                   layerTiles, tile, additionalButtons, leakedButtons,
                   allCurrentButtons, buttonsCount, onPointerOver, keyListeners,
                   pendingTimers, mapEventsEnabled, menuCoord, showOptions>>

\* An UP key press while listeners are registered.
KeydownUP ==
    /\ keyListeners > 0
    /\ LET c == pressUP(cursorState, keyListeners)
       IN  /\ cursorIndex' = c.cursorIndex
           /\ highlighted' = c.highlighted
    /\ emitted' = << >>
    /\ pointerupLog' = << >>
    /\ lastOp' = "UP"
    /\ UNCHANGED <<permanentButtons, permanentButtonsVisible, layerVisible,
                   layerTiles, tile, additionalButtons, leakedButtons,
                   allCurrentButtons, buttonsCount, onPointerOver, keyListeners,
                   pendingTimers, mapEventsEnabled, menuCoord, showOptions>>

\* The pointer moves over a button that carries a hover handler: the
\* handler installed by addOverEventButtons calls cursorIndexChanged(index).
PointerOver(h) ==
    /\ permanentButtonsVisible
    /\ h \in onPointerOver
    /\ LET c == cursorIndexChanged(cursorState, h[2])
       IN  /\ cursorIndex' = c.cursorIndex
           /\ highlighted' = c.highlighted
    /\ emitted' = << >>
    /\ pointerupLog' = << >>
    /\ lastOp' = "over"
    /\ UNCHANGED <<permanentButtons, permanentButtonsVisible, layerVisible,
                   layerTiles, tile, additionalButtons, leakedButtons,
                   allCurrentButtons, buttonsCount, onPointerOver, keyListeners,
                   pendingTimers, mapEventsEnabled, menuCoord, showOptions>>

\* sendAction(action): the event put on the scene's bus.
sendAction(action) ==
    [name |-> <<"weaponSelectorEvent", action>>, payload |-> tile]

\* hide() has no return statement: the call evaluates to undefined, not to
\* the menu.
hideReturnsMenu == FALSE

\* An onClick that does not call hide().
onClickWithoutHide(button, lit) ==
    /\ emitted' = << >>
    /\ highlighted' = lit
    /\ UNCHANGED <<permanentButtonsVisible, layerVisible, layerTiles,
                   additionalButtons, allCurrentButtons, buttonsCount,
                   cursorIndex, onPointerOver, keyListeners, pendingTimers>>

\* The onClick of a button, run when the button gets 'pointerup'.
\* Cancel button: this.hide().sendAction(cancel); reading sendAction of
\* undefined throws after hide() has run.  Weapon button: this.hide() and
\* a console.log.
onClick(button, lit) ==
    /\ hide(lit)
    /\ emitted' = IF button[1] = "cancel" /\ hideReturnsMenu
                  THEN <<sendAction("cancel")>>
                  ELSE << >>

\* keydownENTER() activating the first button whatever the cursor.
buttonOverFirst(buttons, index) == buttons[1]

\* keydownENTER(): the button that is activated.
buttonOver(buttons, index) == buttons[index + 1]

\* An ENTER key press while listeners are registered.  The first listener
\* call activates the button under the cursor, whose onClick hides the
\* menu; the exception of the cancel button ends the emission, and any
\* further listener call finds the list empty and throws.
KeydownENTER ==
    /\ keyListeners > 0
    /\ pendingTimers < MaxTimers
    /\ IF cursorIndex + 1 \in DOMAIN allCurrentButtons
       THEN LET button == buttonOver(allCurrentButtons, cursorIndex)
            IN  /\ onClick(button, highlighted \ {button})
                /\ pointerupLog' = <<button>>
       ELSE /\ pointerupLog' = << >>
            /\ emitted' = << >>
            /\ UNCHANGED <<permanentButtonsVisible, layerVisible, layerTiles,
                           additionalButtons, allCurrentButtons, buttonsCount,
                           cursorIndex, highlighted, onPointerOver,
                           keyListeners, pendingTimers>>
    /\ lastOp' = "ENTER"
    /\ UNCHANGED <<permanentButtons, tile, leakedButtons, mapEventsEnabled,
                   menuCoord, showOptions>>

\* The context buttons that exist: those of the current container unless
\* destroyed, and those of containers replaced by a later show().
liveContextButtons ==
    (IF additionalButtons.defined /\ ~ additionalButtons.destroyed
     THEN Range(additionalButtons.list) ELSE {})
    \cup (IF leakedButtons THEN {createWeaponButton(0)} ELSE {})

\* The buttons the pointer can reach.
clickableButtons ==
    (IF permanentButtonsVisible THEN Range(permanentButtons) ELSE {})
    \cup liveContextButtons

\* The pointer is released on a button.
PointerUp(button) ==
    /\ button \in clickableButtons
    /\ pendingTimers < MaxTimers
    /\ onClick(button, highlighted)
    /\ pointerupLog' = <<button>>
    /\ lastOp' = "pointerup"
    /\ UNCHANGED <<permanentButtons, tile, leakedButtons, mapEventsEnabled,
                   menuCoord, showOptions>>

\* ------------------------------------------------------------------------
\* Specification
\* ------------------------------------------------------------------------

\* Every button that can exist.
Buttons ==
    {createCancelButton(i) : i \in 1..MaxPermanent}
    \cup {createWeaponButton(i) : i \in 0..(MaxWeapons - 1)}

Next ==
    \/ \E cursor \in RefTiles, options \in ShowOptions : Show(cursor, options)
    \/ Hide
    \/ TimerFire
    \/ KeydownDOWN
    \/ KeydownUP
    \/ KeydownENTER
    \/ \E h \in onPointerOver : PointerOver(h)
    \/ \E button \in Buttons : PointerUp(button)

Spec == Init /\ [][Next]_vars

\* The host's timer queue runs every scheduled callback.
FairSpec == Spec /\ WF_vars(TimerFire)

\* ------------------------------------------------------------------------
\* Properties
\* ------------------------------------------------------------------------

\* Tile <<column, row>> lies inside the map.
InMap(column, row) ==
    /\ 0 <= column /\ column < MapWidth
    /\ 0 <= row /\ row < MapHeight

\* 'subscribeMapEvents' was emitted by the last operation.
subscribeEmitted ==
    \E i \in DOMAIN emitted : emitted[i].name = <<"subscribeMapEvents">>

\* hide() ran in the last operation: called by the host, or by the onClick
\* of the button that ENTER or the pointer activated.
hideCalled == lastOp \in {"hide", "ENTER", "pointerup"}

\* C1: in every reachable state, whenever buttonsCount > 0 the cursor index
\* is an integer with 0 <= cursorIndex < buttonsCount.
C1_CursorInRange ==
    buttonsCount > 0 =>
        (cursorIndex \in Int /\ 0 <= cursorIndex /\ cursorIndex < buttonsCount)

\* C1 witness: a DOWN press on the last of several buttons wrapped the
\* cursor to the first one.
C1_Witness ==
    /\ lastOp = "DOWN"
    /\ keyListeners = 1
    /\ buttonsCount > 1
    /\ cursorIndex = 0

\* C2: after show() the navigable list is the permanent buttons followed by
\* the context buttons built by that show, and buttonsCount is its length.
C2_ShowListsAllButtons ==
    lastOp = "show" =>
        /\ allCurrentButtons = permanentButtons \o additionalButtons.list
        /\ buttonsCount = Len(permanentButtons) + Len(additionalButtons.list)

\* C3: after every show() each tile of the panel rectangle, getPanelWidth
\* columns wide and buttonsCount + 2 rows high from the panel's top-left
\* tile, lies inside the map.
C3_PanelInsideMap ==
    lastOp = "show" =>
        \A c \in 0..(getPanelWidth - 1), r \in 0..(buttonsCount + 1) :
            InMap(menuCoord.x + c, menuCoord.y + r)

\* C4: an ENTER press while the menu is shown emits 'pointerup' on the
\* button at the cursor index of the navigable list and on no other button.
C4_EnterActivatesCursorButton ==
    [][(lastOp' = "ENTER" /\ keyListeners > 0) =>
          /\ cursorIndex + 1 \in DOMAIN allCurrentButtons
          /\ pointerupLog' = <<allCurrentButtons[cursorIndex + 1]>>]_vars

\* C4 witness: ENTER activated the second button, which the cursor had been
\* moved to.
C4_Witness ==
    /\ lastOp = "ENTER"
    /\ pointerupLog = <<createCancelButton(2)>>

\* C5: after hide() buttonsCount = 0, cursorIndex = 0 and the navigable list
\* is empty, whatever the state hide() was called in.
C5_HideResets ==
    hideCalled =>
        /\ buttonsCount = 0
        /\ cursorIndex = 0
        /\ allCurrentButtons = << >>

\* C5 witness: hide() was called after several show() calls without a hide
\* between them (a container of context buttons was replaced), and hide()
\* ran more than once.
C5_Witness ==
    /\ lastOp = "hide"
    /\ leakedButtons
    /\ pendingTimers > 1

\* C6: while the menu is shown with more than one button, a DOWN press
\* followed by an UP press, and an UP press followed by a DOWN press, leave
\* the cursor where it was.
C6_DownUpRoundTrip ==
    (layerVisible /\ keyListeners > 0 /\ buttonsCount > 1) =>
        /\ pressUP([pressDOWN(cursorState, keyListeners) EXCEPT !.thrown = FALSE],
                   keyListeners).cursorIndex = cursorIndex
        /\ pressDOWN([pressUP(cursorState, keyListeners) EXCEPT !.thrown = FALSE],
                     keyListeners).cursorIndex = cursorIndex

\* C6 witness: the menu is shown with several buttons and an UP press has
\* wrapped the cursor from the first button to the last.
C6_Witness ==
    /\ lastOp = "UP"
    /\ layerVisible
    /\ keyListeners = 1
    /\ buttonsCount > 1
    /\ cursorIndex = buttonsCount - 1

\* C7: right after every show() the cursor index is 0 and the button at
\* index 0 is highlighted.
C7_ShowStartsAtFirstButton ==
    lastOp = "show" =>
        /\ cursorIndex = 0
        /\ allCurrentButtons[1] \in highlighted

\* C8: activating a button of the menu hides the menu and emits exactly one
\* domain action event, named by the menu's event prefix plus an action
\* identifier, with the menu's tile as payload.
C8_ActivationEmitsAction ==
    lastOp \in {"ENTER", "pointerup"} =>
        /\ ~ isVisible
        /\ Len(emitted) = 1
        /\ emitted[1].name[1] = sendAction("cancel").name[1]
        /\ Len(emitted[1].name) = 2
        /\ emitted[1].payload = tile

\* C9: a show() given no options builds no context button.
C9_NoOptionsNoContextButtons ==
    (lastOp = "show" /\ ~ showOptions.present) =>
        additionalButtons.list = << >>

\* C10: hide() does not emit 'subscribeMapEvents' itself, and after every
\* hide() either the menu is shown again or 'subscribeMapEvents' is
\* eventually emitted by the deferred timer.
C10_MapEventsReenabledLater ==
    /\ [](hideCalled => (~ subscribeEmitted /\ pendingTimers > 0))
    /\ hideCalled ~> (layerVisible \/ (lastOp = "timer" /\ subscribeEmitted))

\* C10 witness: the menu was shown, then hidden, and the deferred timer has
\* fired while the menu stayed hidden.
C10_Witness ==
    /\ lastOp = "timer"
    /\ subscribeEmitted
    /\ mapEventsEnabled
    /\ ~ layerVisible
    /\ additionalButtons.defined
    /\ pendingTimers = 0

\* C11 as stated: isVisible() is false after construction and after every
\* hide(), true after every show(), and UP, DOWN, ENTER, pointer-over and
\* the deferred timer do not change its result.
C11_OnlyShowHideChangeVisible ==
    /\ [](lastOp = "new" => ~ isVisible)
    /\ [][/\ lastOp' = "hide" => ~ isVisible'
          /\ lastOp' = "show" => isVisible'
          /\ lastOp' \in {"UP", "DOWN", "ENTER", "over", "timer"}
                => isVisible' = isVisible]_vars

\* C11 amended: isVisible() is false after construction and after every
\* hide(), true after every show(); UP, DOWN, pointer-over and the deferred
\* timer do not change its result, while ENTER and a pointer click hide the
\* menu through the hide() call of the activated button's onClick.
C11_VisibleFollowsShowHide ==
    /\ [](lastOp = "new" => ~ isVisible)
    /\ [][/\ lastOp' = "hide" => ~ isVisible'
          /\ lastOp' = "show" => isVisible'
          /\ lastOp' \in {"UP", "DOWN", "over", "timer"}
                => isVisible' = isVisible
          /\ lastOp' \in {"ENTER", "pointerup"} => ~ isVisible']_vars

\* C11 witness: the deferred timer of an earlier hide() fired while the menu
\* was shown again, and the menu is still visible.
C11_Witness ==
    /\ lastOp = "timer"
    /\ isVisible

\* C12: whenever the menu is visible, the host map's input handling is
\* suspended.
C12_MapSuspendedWhileVisible ==
    isVisible => ~ mapEventsEnabled

\* C13: one DOWN press moves the cursor from i to (i + 1) mod buttonsCount
\* and one UP press to (i - 1 + buttonsCount) mod buttonsCount, however
\* often show() was called since the last hide().
C13_KeyPressMovesByOne ==
    [][/\ (lastOp' = "DOWN" /\ buttonsCount > 0)
             => cursorIndex' = (cursorIndex + 1) % buttonsCount
       /\ (lastOp' = "UP" /\ buttonsCount > 0)
             => cursorIndex' = (cursorIndex - 1 + buttonsCount) % buttonsCount]_vars

\* C14: at most one button is highlighted in every state; while the menu is
\* shown exactly the button at the cursor index is highlighted; a cursor
\* change to the current index changes nothing.
C14_OneHighlightAtCursor ==
    /\ Cardinality(highlighted) <= 1
    /\ isVisible =>
          /\ cursorIndex + 1 \in DOMAIN allCurrentButtons
          /\ highlighted = {allCurrentButtons[cursorIndex + 1]}
    /\ cursorIndexChanged(cursorState, cursorIndex) = cursorState

\* C15: a panel painted on an empty layer at top-left (x, y) for itemsCount
\* buttons has its top row at y, middle rows at y + 1 .. y + itemsCount and
\* its bottom row at y + itemsCount + 1, and nothing else.
C15_PanelRows ==
    (lastOp = "show" /\ keyListeners = 1) =>
        LET x == menuCoord.x
            y == menuCoord.y
            columns == 0..(getPanelWidth - 1)
        IN  /\ DOMAIN layerTiles =
                  {<<x + c, y + r>> : c \in columns, r \in 0..(buttonsCount + 1)}
            /\ \A c \in columns :
                  /\ layerTiles[<<x + c, y>>] = linesTiles.top[c + 1]
                  /\ \A r \in 1..buttonsCount :
                        layerTiles[<<x + c, y + r>>] = linesTiles.middle[c + 1]
                  /\ layerTiles[<<x + c, y + buttonsCount + 1>>]
                        = linesTiles.bottom[c + 1]

\* C16: while the menu is hidden no keyboard listener and no hover handler
\* of an earlier show() is left and no button is highlighted, so no UP,
\* DOWN, ENTER or pointer-over handler runs before the next show().
C16_HiddenMenuIgnoresInput ==
    /\ [](~ isVisible =>
            /\ keyListeners = 0
            /\ onPointerOver = {}
            /\ highlighted = {})
    /\ [][~ isVisible => lastOp' \notin {"UP", "DOWN", "ENTER", "over"}]_vars

\* C16 witness: hide() ran after two show() calls without a hide between
\* them, which had registered the keyboard handlers twice.
C16_Witness ==
    /\ lastOp = "hide"
    /\ ~ isVisible
    /\ leakedButtons
    /\ keyListeners = 0

\* C17: after hide() no context button created by an earlier show() exists.
C17_HideDestroysContextButtons ==
    hideCalled => liveContextButtons = {}

====
